---------------------------- MODULE Spec2Model ----------------------------
(***************************************************************************)
(* A model of the issues plugin of OpenHands:                              *)
(*   src/openhands/events/observation/issues.py  (issue records, the       *)
(*       observation, the text helpers and the two retrieval functions)    *)
(*   src/openhands/events/action/issues.py       (IssuesQueryAction)       *)
(*   src/openhands/runtime/plugins/issues/__init__.py  (IssuesPlugin)      *)
(*                                                                         *)
(* Python strings are sequences of one-character strings.  A Python value  *)
(* that may also be None, or the outcome of a call that may raise, is a    *)
(* record [tag, val].                                                      *)
(***************************************************************************)
EXTENDS Integers, Sequences, FiniteSets, TLC

VARIABLES
    pc,            \* position of the call in progress
    \* the text helpers
    text,          \* the text argument of a helper
    github_repo,   \* the github_repo argument of extract_github_info
    cleaned,       \* clean_text(text)
    recleaned,     \* clean_text(clean_text(text))
    ticket,        \* extract_ticket_number(text)
    tickets,       \* extract_ticket_ids(text)
    info,          \* extract_github_info(text, github_repo)
    \* IssuesQueryObservation and the issue records
    issues,        \* IssuesQueryObservation.issues
    rendering,     \* the last str(issue) taken: the issue's index and the text
    obs_text,      \* the last get_agent_obs_text()
    \* IssuesPlugin
    plugin,        \* the plugin object's attributes
    action,        \* the action last given to _run
    run_result,    \* what that _run returned or raised
    \* get_top5_related_jira_issues and get_github_pr_details
    issue_key,     \* issue_key argument
    pr_id,         \* pr_id argument
    failed,        \* the external calls that have raised during this call
    jira_client,   \* local jira_client
    current_issue, \* local current_issue
    keywords,      \* local keywords
    jql_query,     \* local jql_query
    found_issues,  \* local found_issues
    pr,            \* local pr
    pr_tickets,    \* local tickets
    patch_content, \* local patch_content
    ret            \* what the call returned or raised

helperVars == <<text, github_repo, cleaned, recleaned, ticket, tickets, info>>
renderVars == <<issues, rendering, obs_text>>
pluginVars == <<plugin, action, run_result>>
fetchVars == <<issue_key, pr_id, failed, jira_client, current_issue, keywords,
               jql_query, found_issues, pr, pr_tickets, patch_content, ret>>
vars == <<pc, helperVars, renderVars, pluginVars, fetchVars>>

---------------------------------------------------------------------------
(* Bounds of the model *)

MaxTextLen == 6
MaxTicketLen == 5
MaxFragments == 4
MaxIssues == 2
MaxQueryLen == 3
NumJiraIssues == 6
MaxRanked == 4

---------------------------------------------------------------------------
(* Python values *)

PyStr(s) == [tag |-> "str", val |-> s]
PyNone == [tag |-> "None", val |-> <<>>]
Raised(e) == [tag |-> "raise", val |-> <<e>>]
Unset == [tag |-> "unset", val |-> <<>>]

\* Python truth of a str-or-None value: None and '' are falsy
Truthy(v) == v.tag = "str" /\ v.val # <<>>

SeqsUpTo(S, n) == UNION {[1..k -> S] : k \in 0..n}

---------------------------------------------------------------------------
(* clean_text *)

\* the characters clean_text is exercised on: two kinds of whitespace, the
\* tag and brace delimiters and an ordinary character
CleanChars == {" ", "\n", "<", ">", "{", "}", "a"}

\* \s of the re module, str.strip()'s whitespace
IsSpace(c) == c \in {" ", "\n", "\t", "\r"}

\* the . of the re module (no DOTALL): any character but a newline
IsDot(c) == c # "\n"

\* index of the first c in s at or after i, 0 if there is none
RECURSIVE FirstAt(_, _, _)
FirstAt(s, i, c) ==
    IF i > Len(s) THEN 0
    ELSE IF s[i] = c THEN i
    ELSE FirstAt(s, i + 1, c)

\* re.sub(r'\s+', ' ', s): every maximal run of whitespace becomes one space
RECURSIVE SubWsFrom(_, _)
SubWsFrom(s, i) ==
    IF i > Len(s) THEN <<>>
    ELSE IF IsSpace(s[i])
         THEN IF i > 1 /\ IsSpace(s[i - 1])
              THEN SubWsFrom(s, i + 1)
              ELSE <<" ">> \o SubWsFrom(s, i + 1)
         ELSE <<s[i]>> \o SubWsFrom(s, i + 1)

SubWs(s) == SubWsFrom(s, 1)

\* str.strip()
RECURSIVE LStrip(_)
LStrip(s) ==
    IF s # <<>> /\ IsSpace(Head(s)) THEN LStrip(Tail(s)) ELSE s

RECURSIVE RStrip(_)
RStrip(s) ==
    IF s # <<>> /\ IsSpace(s[Len(s)]) THEN RStrip(SubSeq(s, 1, Len(s) - 1)) ELSE s

Strip(s) == RStrip(LStrip(s))

\* end of the match of <[^>]+> that starts at i, 0 if there is none: the greedy
\* [^>]+ runs to the first '>' after i and needs at least one character
TagEnd(s, i) ==
    IF s[i] # "<" THEN 0
    ELSE LET j == FirstAt(s, i + 1, ">")
         IN  IF j >= i + 2 THEN j ELSE 0

\* re.sub(r'<[^>]+>', '', s): leftmost matches, scanning on after each match
RECURSIVE SubTagsFrom(_, _)
SubTagsFrom(s, i) ==
    IF i > Len(s) THEN <<>>
    ELSE LET e == TagEnd(s, i)
         IN  IF e > 0 THEN SubTagsFrom(s, e + 1)
             ELSE <<s[i]>> \o SubTagsFrom(s, i + 1)

SubTags(s) == SubTagsFrom(s, 1)

\* end of the match of \{.*?\} that starts at i, 0 if there is none: the lazy
\* .*? stops at the first '}' and crosses no newline
BraceEnd(s, i) ==
    IF s[i] # "{" THEN 0
    ELSE LET j == FirstAt(s, i + 1, "}")
         IN  IF j > 0 /\ \A k \in (i + 1)..(j - 1) : IsDot(s[k]) THEN j ELSE 0

\* re.sub(r'\{.*?\}', '', s)
RECURSIVE SubBracesFrom(_, _)
SubBracesFrom(s, i) ==
    IF i > Len(s) THEN <<>>
    ELSE LET e == BraceEnd(s, i)
         IN  IF e > 0 THEN SubBracesFrom(s, e + 1)
             ELSE <<s[i]>> \o SubBracesFrom(s, i + 1)

SubBraces(s) == SubBracesFrom(s, 1)

\* clean_text without its guard on falsy input: re.sub(None) raises TypeError
clean_text_unguarded(t) ==
    IF t.tag # "str" THEN Raised("TypeError")
    ELSE PyStr(Strip(SubBraces(SubTags(Strip(SubWs(t.val))))))

clean_text(t) ==
    IF ~Truthy(t) THEN PyStr(<<>>)
    ELSE PyStr(Strip(SubBraces(SubTags(Strip(SubWs(t.val))))))

---------------------------------------------------------------------------
(* extract_ticket_number, extract_all_ticket_numbers, extract_ticket_ids *)

UpperLetters == {"A", "B", "C", "D", "E", "F", "G", "H", "I", "J", "K", "L", "M",
                 "N", "O", "P", "Q", "R", "S", "T", "U", "V", "W", "X", "Y", "Z"}
LowerLetters == {"a", "b", "c", "d", "e", "f", "g", "h", "i", "j", "k", "l", "m",
                 "n", "o", "p", "q", "r", "s", "t", "u", "v", "w", "x", "y", "z"}
Digits == {"0", "1", "2", "3", "4", "5", "6", "7", "8", "9"}

Range(s) == {s[i] : i \in 1..Len(s)}

MinOf(S) == CHOOSE m \in S : \A x \in S : m <= x

\* last index of the run of characters of class C that starts at i (i - 1 when
\* s[i] is not in C): where a greedy C* started at i stops
RunEnd(s, i, C) ==
    LET stops == {k \in i..Len(s) : s[k] \notin C}
    IN  IF stops = {} THEN Len(s) ELSE MinOf(stops) - 1

\* [A-Z] without re.IGNORECASE
IsTicketLetterCaseSensitive(c) == c \in UpperLetters

\* [A-Z] under re.IGNORECASE
IsTicketLetter(c) == c \in UpperLetters \cup LowerLetters

TicketLetters == {c \in UpperLetters \cup LowerLetters : IsTicketLetter(c)}

\* the match of [A-Z]+-(\d+) that starts at i: its end and the start of the
\* group, end 0 if there is none.  The greedy [A-Z]+ takes the whole run of
\* letters, after which '-' and a digit must follow; \d+ takes the whole run
TicketMatchAt(s, i) ==
    IF ~IsTicketLetter(s[i]) THEN [end |-> 0, group |-> 0]
    ELSE LET l == RunEnd(s, i, TicketLetters)
         IN  IF l + 2 <= Len(s) /\ s[l + 1] = "-" /\ s[l + 2] \in Digits
             THEN [end |-> RunEnd(s, l + 2, Digits), group |-> l + 2]
             ELSE [end |-> 0, group |-> 0]

\* re.search: the leftmost position with a match, 0 if there is none
RECURSIVE TicketSearchFrom(_, _)
TicketSearchFrom(s, i) ==
    IF i > Len(s) THEN 0
    ELSE IF TicketMatchAt(s, i).end > 0 THEN i
    ELSE TicketSearchFrom(s, i + 1)

extract_ticket_number(s) ==
    LET i == TicketSearchFrom(s, 1)
    IN  IF i = 0 THEN <<>>
        ELSE SubSeq(s, TicketMatchAt(s, i).group, TicketMatchAt(s, i).end)

\* re.findall(r'([A-Z]+-\d+)', s): the matched substrings, left to right, the
\* scan going on after each match
RECURSIVE TicketFindAllFrom(_, _)
TicketFindAllFrom(s, i) ==
    IF i > Len(s) THEN <<>>
    ELSE LET e == TicketMatchAt(s, i).end
         IN  IF e > 0 THEN <<SubSeq(s, i, e)>> \o TicketFindAllFrom(s, e + 1)
             ELSE TicketFindAllFrom(s, i + 1)

\* the set that extract_all_ticket_numbers turns into a list
TicketNumberSet(s) ==
    {extract_ticket_number(t) : t \in
        {u \in Range(TicketFindAllFrom(s, 1)) : extract_ticket_number(u) # <<>>}}

\* list(a set): the elements once each, in an order the program does not fix
ListsOfSet(S) ==
    {f \in [1..Cardinality(S) -> S] : \A i, j \in 1..Cardinality(S) : f[i] = f[j] => i = j}

\* the lists extract_all_ticket_numbers may return
extract_all_ticket_numbers(s) == ListsOfSet(TicketNumberSet(s))

extract_ticket_ids(s) == extract_all_ticket_numbers(s)

---------------------------------------------------------------------------
(* extract_github_info *)

\* [a-f0-9] under re.IGNORECASE
HexChars == Digits \cup {"a", "b", "c", "d", "e", "f", "A", "B", "C", "D", "E", "F"}

\* the repositories of the model
Repos == {"apache/hive", "apache/tez"}

\* the literal text "https://github.com/<repo>/commit/" is one element of a text
CommitUrlPrefix(repo) ==
    IF repo = "apache/hive" THEN "https://github.com/apache/hive/commit/"
    ELSE "https://github.com/apache/tez/commit/"

\* the literal text "https://github.com/<repo>/pull/" is one element of a text
PullUrlPrefix(repo) ==
    IF repo = "apache/hive" THEN "https://github.com/apache/hive/pull/"
    ELSE "https://github.com/apache/tez/pull/"

\* a pattern that leaves the repository out of the URL
IsCommitUrlOfAnyRepo(c, repo) == c \in {CommitUrlPrefix(r) : r \in Repos}

\* https://github\.com/{re.escape(github_repo)}/commit/ matches c
IsCommitUrlOf(c, repo) == c = CommitUrlPrefix(repo)

\* https://github\.com/{re.escape(github_repo)}/pull/ matches c
IsPullUrlOf(c, repo) == c = PullUrlPrefix(repo)

ShortShaLen == 7
MaxShaLen == 40

NoMatch == [end |-> 0, g1 |-> <<>>, g2 |-> <<>>, g3 |-> <<>>, g4 |-> <<>>]

\* the match of commit_pattern that starts at i, with its four groups ('' for
\* a group that took no part), end 0 if there is none
CommitMatchAt(s, i, repo) ==
    IF s[i] = "["
    THEN \* \[[^|]+\|(https://.../commit/([a-f0-9]{7,40}))\]
         LET p == FirstAt(s, i + 1, "|")
             h == RunEnd(s, p + 2, HexChars)
             n == h - (p + 1)
         IN  IF /\ p >= i + 2
                /\ p + 1 <= Len(s)
                /\ IsCommitUrlOf(s[p + 1], repo)
                /\ n >= ShortShaLen
                /\ n <= MaxShaLen
                /\ h + 1 <= Len(s)
                /\ s[h + 1] = "]"
             THEN [end |-> h + 1, g1 |-> SubSeq(s, p + 1, h), g2 |-> SubSeq(s, p + 2, h),
                   g3 |-> <<>>, g4 |-> <<>>]
             ELSE NoMatch
    ELSE IF IsCommitUrlOf(s[i], repo)
    THEN \* (https://.../commit/([a-f0-9]{7})[a-f0-9]*)
         LET h == RunEnd(s, i + 1, HexChars)
         IN  IF h - i >= ShortShaLen
             THEN [end |-> h, g1 |-> <<>>, g2 |-> <<>>, g3 |-> SubSeq(s, i, h),
                   g4 |-> SubSeq(s, i + 1, i + ShortShaLen)]
             ELSE NoMatch
    ELSE NoMatch

\* the match of pr_pattern that starts at i, with its two groups
PrMatchAt(s, i, repo) ==
    IF s[i] = "["
    THEN \* \[[^|]+\|(https://.../pull/\d+)\]
         LET p == FirstAt(s, i + 1, "|")
             d == RunEnd(s, p + 2, Digits)
         IN  IF /\ p >= i + 2
                /\ p + 1 <= Len(s)
                /\ IsPullUrlOf(s[p + 1], repo)
                /\ d >= p + 2
                /\ d + 1 <= Len(s)
                /\ s[d + 1] = "]"
             THEN [end |-> d + 1, g1 |-> SubSeq(s, p + 1, d), g2 |-> <<>>,
                   g3 |-> <<>>, g4 |-> <<>>]
             ELSE NoMatch
    ELSE IF IsPullUrlOf(s[i], repo)
    THEN \* (https://.../pull/\d+)
         LET d == RunEnd(s, i + 1, Digits)
         IN  IF d >= i + 1
             THEN [end |-> d, g1 |-> <<>>, g2 |-> SubSeq(s, i, d), g3 |-> <<>>,
                   g4 |-> <<>>]
             ELSE NoMatch
    ELSE NoMatch

\* m[1] or m[3] kept whole
CommitIdUntruncated(m) == IF m.g2 # <<>> THEN m.g2 ELSE m.g4

\* commit_id_full[:7] of commit_id_full = m[1] or m[3]
CommitId(m) ==
    LET commit_id_full == IF m.g2 # <<>> THEN m.g2 ELSE m.g4
    IN  SubSeq(commit_id_full, 1, IF Len(commit_id_full) < ShortShaLen
                                  THEN Len(commit_id_full) ELSE ShortShaLen)

\* the list commits: one entry per match of re.findall(commit_pattern, text)
RECURSIVE CommitsFrom(_, _, _)
CommitsFrom(s, i, repo) ==
    IF i > Len(s) THEN <<>>
    ELSE LET m == CommitMatchAt(s, i, repo)
         IN  IF m.end = 0 THEN CommitsFrom(s, i + 1, repo)
             ELSE IF CommitId(m) # <<>>
             THEN <<CommitId(m)>> \o CommitsFrom(s, m.end + 1, repo)
             ELSE CommitsFrom(s, m.end + 1, repo)

\* the list prs: m[0] or m[1] for every match of re.findall(pr_pattern, text)
RECURSIVE PrsFrom(_, _, _)
PrsFrom(s, i, repo) ==
    IF i > Len(s) THEN <<>>
    ELSE LET m == PrMatchAt(s, i, repo)
             u == IF m.g1 # <<>> THEN m.g1 ELSE m.g2
         IN  IF m.end = 0 THEN PrsFrom(s, i + 1, repo)
             ELSE IF u # <<>> THEN <<u>> \o PrsFrom(s, m.end + 1, repo)
             ELSE PrsFrom(s, m.end + 1, repo)

\* the lists list(set(commits)) may be
CommitLists(s, repo) == ListsOfSet(Range(CommitsFrom(s, 1, repo)))

\* the lists list(set(prs)) may be
PrLists(s, repo) == ListsOfSet(Range(PrsFrom(s, 1, repo)))

\* the dicts extract_github_info may return
extract_github_info(s, repo) ==
    {[commits |-> c, prs |-> p] : c \in CommitLists(s, repo), p \in PrLists(s, repo)}

---------------------------------------------------------------------------
(* The values of the variables a specification does not use *)

HelperIdle ==
    /\ text = Unset
    /\ github_repo = ""
    /\ cleaned = Unset
    /\ recleaned = Unset
    /\ ticket = Unset
    /\ tickets = <<>>
    /\ info = [commits |-> <<>>, prs |-> <<>>]

RenderIdle ==
    /\ issues = <<>>
    /\ rendering = [index |-> 0, str |-> <<>>]
    /\ obs_text = Unset

PluginIdle ==
    /\ plugin = [name |-> "issues"]
    /\ action = [type |-> "", query |-> <<>>, thought |-> <<>>]
    /\ run_result = [tag |-> "unset", exc |-> "", issues |-> <<>>]

FetchIdle ==
    /\ issue_key = <<>>
    /\ pr_id = 0
    /\ failed = {}
    /\ jira_client = Unset
    /\ current_issue = Unset
    /\ keywords = <<>>
    /\ jql_query = Unset
    /\ found_issues = <<>>
    /\ pr = Unset
    /\ pr_tickets = <<>>
    /\ patch_content = Unset
    /\ ret = [tag |-> "unset", exc |-> "", issues |-> <<>>]

---------------------------------------------------------------------------
(* clean_text, applied once and then again to its own result *)

CleanInputs == {PyNone} \cup {PyStr(s) : s \in SeqsUpTo(CleanChars, MaxTextLen)}

InitClean ==
    /\ pc = "clean"
    /\ text \in CleanInputs
    /\ github_repo = ""
    /\ cleaned = Unset
    /\ recleaned = Unset
    /\ ticket = Unset
    /\ tickets = <<>>
    /\ info = [commits |-> <<>>, prs |-> <<>>]
    /\ RenderIdle /\ PluginIdle /\ FetchIdle

\* cleaned = clean_text(text)
CleanOnce ==
    /\ pc = "clean"
    /\ cleaned' = clean_text(text)
    /\ pc' = "reclean"
    /\ UNCHANGED <<text, github_repo, recleaned, ticket, tickets, info>>
    /\ UNCHANGED <<renderVars, pluginVars, fetchVars>>

\* recleaned = clean_text(cleaned)
CleanTwice ==
    /\ pc = "reclean"
    /\ recleaned' = clean_text(cleaned)
    /\ pc' = "done"
    /\ UNCHANGED <<text, github_repo, cleaned, ticket, tickets, info>>
    /\ UNCHANGED <<renderVars, pluginVars, fetchVars>>

NextClean == CleanOnce \/ CleanTwice

SpecClean == InitClean /\ [][NextClean]_vars

\* C1: clean_text is idempotent: for every text, cleaning the cleaned text
\* gives the cleaned text again
C1_CleanTextIdempotent ==
    pc = "done" => recleaned = cleaned

\* C4: for '' and for None clean_text returns '' and raises nothing
C4_CleanTextEmptyOrNone ==
    (pc # "clean" /\ (text = PyNone \/ text = PyStr(<<>>)))
        => cleaned = PyStr(<<>>)

C4_Witness ==
    pc = "reclean" /\ text = PyNone /\ cleaned = PyStr(<<>>)

---------------------------------------------------------------------------
(* the ticket extractors *)

TicketChars == {"H", "e", "-", "1", "2", " "}

HiveExample ==
    <<"S", "e", "e", " ", "H", "I", "V", "E", "-", "1", "2", "3", "4", " ",
      "a", "n", "d", " ", "h", "i", "v", "e", "-", "5", "6", "7", "8">>

TicketInputs == SeqsUpTo(TicketChars, MaxTicketLen) \cup {HiveExample}

InitTicket ==
    /\ pc = "ticket"
    /\ text \in {PyStr(s) : s \in TicketInputs}
    /\ github_repo = ""
    /\ cleaned = Unset
    /\ recleaned = Unset
    /\ ticket = Unset
    /\ tickets = <<>>
    /\ info = [commits |-> <<>>, prs |-> <<>>]
    /\ RenderIdle /\ PluginIdle /\ FetchIdle

\* ticket = extract_ticket_number(text)
ExtractTicketNumber ==
    /\ pc = "ticket"
    /\ ticket' = PyStr(extract_ticket_number(text.val))
    /\ pc' = "ticket_ids"
    /\ UNCHANGED <<text, github_repo, cleaned, recleaned, tickets, info>>
    /\ UNCHANGED <<renderVars, pluginVars, fetchVars>>

\* tickets = extract_ticket_ids(text)
ExtractTicketIds ==
    /\ pc = "ticket_ids"
    /\ tickets' \in extract_ticket_ids(text.val)
    /\ pc' = "done"
    /\ UNCHANGED <<text, github_repo, cleaned, recleaned, ticket, info>>
    /\ UNCHANGED <<renderVars, pluginVars, fetchVars>>

NextTicket == ExtractTicketNumber \/ ExtractTicketIds

SpecTicket == InitTicket /\ [][NextTicket]_vars

\* the places of a text where a letter, a hyphen and a digit follow one another
TicketHyphens(s) ==
    {j \in 2..(Len(s) - 1) :
        /\ s[j] = "-"
        /\ s[j - 1] \in UpperLetters \cup LowerLetters
        /\ s[j + 1] \in Digits}

\* the digits that follow the hyphen at j, up to the first character that is none
DigitsAfter(s, j) ==
    SubSeq(s, j + 1,
           CHOOSE e \in (j + 1)..Len(s) :
               /\ \A k \in (j + 1)..e : s[k] \in Digits
               /\ (e = Len(s) \/ s[e + 1] \notin Digits))

---------------------------------------------------------------------------
(* extract_github_info *)

Sha6 == <<"a", "b", "c", "d", "e", "f">>
Sha7Upper == <<"A", "B", "C", "D", "E", "F", "1">>
Sha8 == <<"a", "b", "c", "d", "e", "f", "1", "1">>

\* the pieces the texts are put together from: the opening of a Jira link
\* [label|, its closing, the URL prefixes of both repositories, hexadecimal runs
\* of six, seven and eight characters in either case, and a character that is a
\* digit and hexadecimal
Fragments ==
    { <<"[", "t", "|">>, <<"]">>, <<"1">>, Sha6, Sha7Upper, Sha8 }
    \cup {<<CommitUrlPrefix(r)>> : r \in Repos}
    \cup {<<PullUrlPrefix(r)>> : r \in Repos}

RECURSIVE Concat(_)
Concat(ss) == IF ss = <<>> THEN <<>> ELSE Head(ss) \o Concat(Tail(ss))

GithubInputs == {Concat(ss) : ss \in SeqsUpTo(Fragments, MaxFragments)}

InitGithub ==
    /\ pc = "github"
    /\ text \in {PyStr(s) : s \in GithubInputs}
    /\ github_repo \in Repos
    /\ cleaned = Unset
    /\ recleaned = Unset
    /\ ticket = Unset
    /\ tickets = <<>>
    /\ info = [commits |-> <<>>, prs |-> <<>>]
    /\ RenderIdle /\ PluginIdle /\ FetchIdle

\* info = extract_github_info(text, github_repo)
ExtractGithubInfo ==
    /\ pc = "github"
    /\ info' \in extract_github_info(text.val, github_repo)
    /\ pc' = "done"
    /\ UNCHANGED <<text, github_repo, cleaned, recleaned, ticket, tickets>>
    /\ UNCHANGED <<renderVars, pluginVars, fetchVars>>

NextGithub == ExtractGithubInfo

SpecGithub == InitGithub /\ [][NextGithub]_vars

NoDuplicates(l) == \A i, j \in 1..Len(l) : l[i] = l[j] => i = j

\* C5: every commit entry is 7 hexadecimal characters, the first 7 that follow
\* a commit URL prefix of the repository in the text; every PR entry is a pull
\* URL of the repository with all its digits, as it stands in the text; neither
\* list holds an entry twice
C5_GithubInfoEntries ==
    pc = "done" =>
        LET s == text.val
        IN  /\ \A n \in 1..Len(info.commits) :
                   LET c == info.commits[n]
                   IN  /\ Len(c) = 7
                       /\ \E i \in 1..Len(s) :
                              /\ s[i] = CommitUrlPrefix(github_repo)
                              /\ i + 7 <= Len(s)
                              /\ SubSeq(s, i + 1, i + 7) = c
                              /\ \A k \in (i + 1)..(i + 7) : s[k] \in HexChars
            /\ \A n \in 1..Len(info.prs) :
                   LET u == info.prs[n]
                   IN  /\ Len(u) >= 2
                       /\ u[1] = PullUrlPrefix(github_repo)
                       /\ \A k \in 2..Len(u) : u[k] \in Digits
                       /\ \E i \in 1..Len(s) :
                              /\ i + Len(u) - 1 <= Len(s)
                              /\ SubSeq(s, i, i + Len(u) - 1) = u
                              /\ (i + Len(u) > Len(s) \/ s[i + Len(u)] \notin Digits)
            /\ NoDuplicates(info.commits)
            /\ NoDuplicates(info.prs)

\* a Jira link to a commit with an 8-character SHA and a pull URL give the
\* first 7 characters of the SHA and the pull URL
C5_Witness ==
    /\ pc = "done"
    /\ \E i \in 1..Len(text.val) :
           /\ text.val[i] = CommitUrlPrefix(github_repo)
           /\ i > 1
           /\ text.val[i - 1] = "|"
           /\ i + 9 <= Len(text.val)
           /\ SubSeq(text.val, i + 1, i + 9) = Sha8 \o <<"]">>
    /\ info.commits = <<SubSeq(Sha8, 1, 7)>>

HasCommitUrl(s, repo) ==
    \E i \in 1..(Len(s) - 1) : s[i] = CommitUrlPrefix(repo) /\ s[i + 1] \in HexChars

HasPullUrl(s, repo) ==
    \E i \in 1..(Len(s) - 1) : s[i] = PullUrlPrefix(repo) /\ s[i + 1] \in Digits

\* C6: a text with no commit URL and no pull URL of the repository gives an
\* empty commits list and an empty prs list, whatever URLs of another
\* repository it holds
C6_NoUrlNoEntries ==
    (pc = "done" /\ ~HasCommitUrl(text.val, github_repo)
                 /\ ~HasPullUrl(text.val, github_repo))
        => info = [commits |-> <<>>, prs |-> <<>>]

\* a text with a commit URL and a pull URL of the other repository only
C6_Witness ==
    /\ pc = "done"
    /\ \E r \in Repos \ {github_repo} :
           text.val = <<CommitUrlPrefix(r)>> \o Sha8 \o <<PullUrlPrefix(r), "1">>
    /\ info = [commits |-> <<>>, prs |-> <<>>]

---------------------------------------------------------------------------
(* The issue records and IssuesQueryObservation.  A rendered text is the     *)
(* sequence of the pieces it is put together from: the literal parts of the  *)
(* format string and the values of the fields.                               *)

IssueClasses == {"JiraIssue", "GithubIssue", "GithubPR", "GithubCommit"}

\* sep.join(l) for a list of strings
RECURSIVE Join(_, _)
Join(l, sep) ==
    IF l = <<>> THEN <<>>
    ELSE IF Len(l) = 1 THEN <<l[1]>>
    ELSE <<l[1], sep>> \o Join(Tail(l), sep)

\* sep.join(l) for a list of texts
RECURSIVE JoinTexts(_, _)
JoinTexts(l, sep) ==
    IF l = <<>> THEN <<>>
    ELSE IF Len(l) = 1 THEN l[1]
    ELSE l[1] \o sep \o JoinTexts(Tail(l), sep)

\* JiraIssue.__str__
JiraIssueStr(issue) ==
    <<"Jira Issue ", issue.id, "\n",
      "Created: ", issue.created, "\n",
      "Title: ", issue.title, "\n",
      "Description: ", issue.description, "\n",
      "Status: ">> \o Join(issue.status, " ") \o <<"\n",
      "Comments: ">> \o Join(issue.comments, "\n---------------------\n") \o <<"\n">>

\* repr of a str and of a list of str
ReprStr(x) == <<"'", x, "'">>
ReprList(l) ==
    <<"[">> \o JoinTexts([i \in 1..Len(l) |-> ReprStr(l[i])], <<", ">>) \o <<"]">>

\* the __repr__ that @dataclass generates, which str() falls back to for the
\* classes that define no __str__ (GithubIssue, GithubCommit)
DataclassRepr(issue) ==
    <<issue.cls, "(", "id=">> \o ReprStr(issue.id)
        \o <<", source=">> \o ReprStr(issue.source)
        \o <<", title=">> \o ReprStr(issue.title)
        \o <<", created=">> \o ReprStr(issue.created)
        \o <<", description=">> \o ReprStr(issue.description)
        \o <<", status=">> \o ReprList(issue.status)
        \o <<", comments=">> \o ReprList(issue.comments)
        \o <<")">>

\* str(issue)
Str(issue) ==
    IF issue.cls = "JiraIssue" THEN JiraIssueStr(issue)
    ELSE IF issue.cls = "GithubPR" THEN <<>>
    ELSE DataclassRepr(issue)

Header == "The following issues were found:\n"

\* get_agent_obs_text with '\n'.join in place of '\n\n'.join
get_agent_obs_text_one_newline(l) ==
    <<Header>> \o JoinTexts([i \in 1..Len(l) |-> Str(l[i])], <<"\n">>)

\* IssuesQueryObservation.get_agent_obs_text
get_agent_obs_text(l) ==
    <<Header>> \o JoinTexts([i \in 1..Len(l) |-> Str(l[i])], <<"\n\n">>)

\* the issue records of the model
IssueRecords ==
    {[cls |-> c, id |-> i,
      source |-> IF c = "JiraIssue" THEN "jira" ELSE "github",
      title |-> IF i = "28708" THEN "Migrate Build Scan publication"
                ELSE "HIVE-28518: Iceberg: Fix ClassCastException",
      created |-> "01/14/25",
      description |-> "The Hive project publishes Build Scans",
      status |-> st, comments |-> co] :
        c \in IssueClasses, i \in {"28708", "5590"},
        st \in {<<"Resolved">>, <<"closed", "merged">>},
        co \in {<<>>, <<"Merged to master", "thanks">>}}

InitRender ==
    /\ pc = "render"
    /\ issues \in SeqsUpTo(IssueRecords, MaxIssues)
    /\ rendering = [index |-> 0, str |-> <<>>]
    /\ obs_text = Unset
    /\ HelperIdle /\ PluginIdle /\ FetchIdle

\* str(issues[i])
StrIssue ==
    /\ pc = "render"
    /\ \E i \in 1..Len(issues) : rendering' = [index |-> i, str |-> Str(issues[i])]
    /\ UNCHANGED <<pc, issues, obs_text, helperVars, pluginVars, fetchVars>>

\* IssuesQueryObservation(issues).get_agent_obs_text()
GetAgentObsText ==
    /\ pc = "render"
    /\ obs_text' = PyStr(get_agent_obs_text(issues))
    /\ UNCHANGED <<pc, issues, rendering, helperVars, pluginVars, fetchVars>>

NextRender == StrIssue \/ GetAgentObsText

SpecRender == InitRender /\ [][NextRender]_vars

\* where the rendering of issue i starts in the text: after the header, the
\* renderings before it and one separator for each of them
RECURSIVE RenderingOffset(_, _)
RenderingOffset(l, i) ==
    IF i = 1 THEN 1
    ELSE RenderingOffset(l, i - 1) + Len(Str(l[i - 1])) + 1

\* C7: the text is the header followed by the rendering of every issue, once
\* each and in list order, with "\n\n" between one rendering and the next; for
\* an empty list it is the header alone
C7_AgentObsText ==
    obs_text # Unset =>
        LET t == obs_text.val
            n == Len(issues)
        IN  /\ t[1] = Header
            /\ n = 0 => t = <<Header>>
            /\ n > 0 => Len(t) = RenderingOffset(issues, n) + Len(Str(issues[n]))
            /\ \A i \in 1..n :
                   LET o == RenderingOffset(issues, i)
                       r == Str(issues[i])
                   IN  /\ SubSeq(t, o + 1, o + Len(r)) = r
                       /\ i < n => t[o + Len(r) + 1] = "\n\n"

C7_Witness ==
    /\ obs_text # Unset
    /\ Len(issues) = 2
    /\ issues[1].cls = "JiraIssue"
    /\ issues[2].cls = "GithubIssue"
    /\ issues[1].id # issues[2].id

\* C8: the rendering of a record of any of the four variants is not empty and
\* shows the record's id and title
C8_EveryVariantRenders ==
    rendering.index > 0 =>
        /\ rendering.str # <<>>
        /\ issues[rendering.index].id \in Range(rendering.str)
        /\ issues[rendering.index].title \in Range(rendering.str)

---------------------------------------------------------------------------
(* IssuesPlugin *)

\* what a call returns or raises: the issues of the IssuesQueryObservation it
\* returns (whose content is always ''), or the exception that leaves it
NoResult == [tag |-> "unset", exc |-> "", issues |-> <<>>]
Returned(l) == [tag |-> "return", exc |-> "", issues |-> l]
Raises(e) == [tag |-> "raise", exc |-> e, issues |-> <<>>]

DUMMY_JIRA_ISSUE ==
    [cls |-> "JiraIssue", id |-> "28708", source |-> "jira",
     title |-> "Migrate Build Scan publication to develocity.apache.org",
     created |-> "01/14/25",
     description |-> "The Hive project publishes Build Scans to the Develocity instance at ge.apache.org. This instance migrating to a new URL, develocity.apache.org. Build scans published to ge.apache.org after today will not be migrated to the new Develocity instance.",
     status |-> <<"Resolved">>,
     comments |-> <<"Merged to master via [69d0a3d|https://github.com/apache/hive/commit/69d0a3ddff695597ad8221bae0ead48f8f38b57f], thanks [~clayburn] for your contribution and [~gmcdonald] for your review!">>]

\* the actions the event stream may hand to the plugin: the issues query and
\* two other kinds, each with a payload
ActionTypes == {"IssuesQueryAction", "CmdRunAction", "MessageAction"}

QueryChars == {"H", "-", "1"}

Actions ==
    [type : ActionTypes, query : SeqsUpTo(QueryChars, MaxQueryLen),
     thought : {<<>>, <<"t">>}]

\* _run without the isinstance check
run_unchecked(a) == Returned(<<DUMMY_JIRA_ISSUE>>)

\* IssuesPlugin._run
run(a) ==
    IF a.type # "IssuesQueryAction" THEN Raises("ValueError")
    ELSE Returned(<<DUMMY_JIRA_ISSUE>>)

InitPlugin ==
    /\ pc = "plugin"
    /\ plugin = [name |-> "issues"]
    /\ action = [type |-> "", query |-> <<>>, thought |-> <<>>]
    /\ run_result = NoResult
    /\ HelperIdle /\ RenderIdle /\ FetchIdle

\* IssuesPlugin.initialize: pass
Initialize ==
    /\ pc = "plugin"
    /\ \E username \in {"hazel"}, jira_url \in {"None", "https://issues.apache.org/jira"} :
           UNCHANGED <<pc, plugin, action, run_result>>
    /\ UNCHANGED <<helperVars, renderVars, fetchVars>>

\* IssuesPlugin._run(a)
Run ==
    /\ pc = "plugin"
    /\ \E a \in Actions :
           /\ action' = a
           /\ run_result' = run(a)
    /\ UNCHANGED <<pc, plugin, helperVars, renderVars, fetchVars>>

NextPlugin == Initialize \/ Run

SpecPlugin == InitPlugin /\ [][NextPlugin]_vars

\* C9: _run raises for every action that is no issues query and returns no
\* observation; for an issues query, whatever its query string, it returns the
\* observation that holds the one dummy Jira issue; the plugin's own state
\* stays as it was
C9_RunTypeChecks ==
    /\ plugin = [name |-> "issues"]
    /\ run_result # NoResult =>
           IF action.type = "IssuesQueryAction"
           THEN /\ run_result.tag = "return"
                /\ run_result.issues = <<DUMMY_JIRA_ISSUE>>
           ELSE /\ run_result.tag = "raise"
                /\ run_result.issues = <<>>

C9_Witness ==
    /\ run_result.tag = "raise"
    /\ action.type = "CmdRunAction"
    /\ action.query = <<"H", "-", "1">>

---------------------------------------------------------------------------
(* get_top5_related_jira_issues and get_github_pr_details.  The Jira and     *)
(* GitHub clients and the RAKE keyword extractor are outside the program:    *)
(* each call of a client either raises or returns, and what it returns is    *)
(* chosen from the sets below.                                               *)

\* the fields of the dataclass Issue, which its four subclasses leave as they
\* are; the first five have no default
IssueFields == {"id", "source", "title", "created", "description", "status", "comments"}
RequiredIssueFields == {"id", "source", "title", "created", "description"}

\* cls(**kw) for an issue dataclass: the __init__ that @dataclass generates
\* raises TypeError for a keyword that is no field and for a missing field
\* without default; otherwise the result holds the new record
NewIssue(cls, kw) ==
    IF DOMAIN kw \subseteq IssueFields /\ RequiredIssueFields \subseteq DOMAIN kw
    THEN Returned(<<[cls |-> cls, id |-> kw.id, source |-> kw.source,
                     title |-> kw.title, created |-> kw.created,
                     description |-> kw.description,
                     status |-> IF "status" \in DOMAIN kw THEN kw.status ELSE <<>>,
                     comments |-> IF "comments" \in DOMAIN kw THEN kw.comments ELSE <<>>]>>)
    ELSE Raises("TypeError")

\* the issues of the model's Jira server: HIVE-1 .. HIVE-<NumJiraIssues>
DigitChar(n) == <<"1", "2", "3", "4", "5", "6", "7", "8", "9">>[n]
JiraKey(n) == <<"H", "I", "V", "E", "-", DigitChar(n)>>
JiraKeys == {JiraKey(n) : n \in 1..NumJiraIssues}

\* fields.summary and fields.description of the issue with a key; every other
\* issue has no description
JiraSummary(key) == PyStr(<<"<", "b", ">", "a", " ", " ", "{", "x", "}", key[Len(key)]>>)
JiraDescription(key) ==
    IF key[Len(key)] \in {"1", "3", "5", "7", "9"} THEN PyNone
    ELSE PyStr(<<"a", "\n", key[Len(key)]>>)

\* the phrases RAKE may rank, best first; of a text it ranks some first part of
\* them, and none of an empty text
RankedPhrases == <<"build scan publication", "develocity instance", "new url", "hive project", "today", "migrated">>
RankedLists(txt) ==
    IF txt = <<>> THEN {<<>>}
    ELSE {SubSeq(RankedPhrases, 1, n) : n \in 0..MaxRanked}

\* the lists extract_keywords(txt, num_keywords) may return:
\* ranked_phrases[:num_keywords] if ranked_phrases else []
extract_keywords(txt, num_keywords) ==
    {IF ranked # <<>>
     THEN SubSeq(ranked, 1, IF Len(ranked) < num_keywords THEN Len(ranked) ELSE num_keywords)
     ELSE <<>> : ranked \in RankedLists(txt)}

\* maxResults of the search
MaxResults == 5

\* what search_issues(jql, maxResults=5) may return: up to MaxResults
\* different issues of the server
SearchResults ==
    {l \in SeqsUpTo(JiraKeys, MaxResults) : \A i, j \in 1..Len(l) : l[i] = l[j] => i = j}

\* issue_key.split('-')[0]
ProjectKey(key) ==
    LET h == FirstAt(key, 1, "-")
    IN  IF h = 0 THEN key ELSE SubSeq(key, 1, h - 1)

\* the JQL text
JqlQuery(key, kws) ==
    <<"project = ">> \o ProjectKey(key) \o <<" AND ">>
        \o JoinTexts([i \in 1..Len(kws) |->
                        <<"(summary ~ \"", kws[i], "\" OR description ~ \"", kws[i], "\")">>],
                     <<" AND ">>)
        \o <<" ORDER BY created DESC">>

\* [i for i in found_issues if i.key != issue_key]
RECURSIVE RelatedIssues(_, _)
RelatedIssues(found, key) ==
    IF found = <<>> THEN <<>>
    ELSE IF Head(found) # key THEN <<Head(found)>> \o RelatedIssues(Tail(found), key)
    ELSE RelatedIssues(Tail(found), key)

\* the loop over related_issues and the return: the first JiraIssue(...) that
\* raises ends the call
RECURSIVE BuildJiraIssues(_, _)
BuildJiraIssues(related, done) ==
    IF related = <<>> THEN Returned(done)
    ELSE LET i == Head(related)
             sum_text == clean_text(JiraSummary(i))
             desc_text == clean_text(IF Truthy(JiraDescription(i)) THEN JiraDescription(i)
                                     ELSE PyStr(<<>>))
             ticket_num == extract_ticket_number(i)
             made == NewIssue("JiraIssue", [id |-> ticket_num, summary |-> sum_text.val,
                                            description |-> desc_text.val])
         IN  IF made.tag = "raise" THEN made
             ELSE BuildJiraIssues(Tail(related), done \o made.issues)

\* an except clause that lets the error of the search go on to the caller
OnJqlErrorReraise == Raises("JIRAError")

\* except Exception: print(...); return IssuesQueryObservation(issues=[])
OnJqlError == Returned(<<>>)

\* the pull requests of the model's GitHub repository: number and title
PrIds == {5589, 5590}
PrTitle(n) ==
    IF n = 5590 THEN <<"H", "I", "V", "E", "-", "2", "8", ":", " ", "h", "i", "v", "e", "-", "7">>
    ELSE <<"f", "i", "x">>
PrPatch(n) == <<"d", "i", "f", "f">>

InitFetch ==
    /\ \/ pc = "jira_client" /\ issue_key \in JiraKeys /\ pr_id = 0
       \/ pc = "github_pr" /\ issue_key = <<>> /\ pr_id \in PrIds
    /\ failed = {}
    /\ jira_client = Unset
    /\ current_issue = Unset
    /\ keywords = <<>>
    /\ jql_query = Unset
    /\ found_issues = <<>>
    /\ pr = Unset
    /\ pr_tickets = <<>>
    /\ patch_content = Unset
    /\ ret = NoResult
    /\ HelperIdle /\ RenderIdle /\ PluginIdle

\* JIRA(server=..., basic_auth=...) returns
JiraClientOk ==
    /\ pc = "jira_client"
    /\ jira_client' = PyStr(<<"JIRA">>)
    /\ pc' = "jira_issue"
    /\ UNCHANGED <<issue_key, pr_id, failed, current_issue, keywords, jql_query,
                   found_issues, pr, pr_tickets, patch_content, ret>>
    /\ UNCHANGED <<helperVars, renderVars, pluginVars>>

\* JIRA(...) raises: the call returns an observation without issues
JiraClientFails ==
    /\ pc = "jira_client"
    /\ failed' = failed \cup {"JIRA"}
    /\ ret' = Returned(<<>>)
    /\ pc' = "done"
    /\ UNCHANGED <<issue_key, pr_id, jira_client, current_issue, keywords, jql_query,
                   found_issues, pr, pr_tickets, patch_content>>
    /\ UNCHANGED <<helperVars, renderVars, pluginVars>>

\* jira_client.issue(issue_key) returns: summary and description are cleaned
\* and handed to extract_keywords; its phrases, or 'issue' when there is none,
\* are the keywords of the JQL text
JiraIssueOk ==
    /\ pc = "jira_issue"
    /\ current_issue' = PyStr(issue_key)
    /\ LET summary_text == clean_text(JiraSummary(issue_key))
           description_text == clean_text(IF Truthy(JiraDescription(issue_key))
                                          THEN JiraDescription(issue_key)
                                          ELSE PyStr(<<>>))
           combined_text == summary_text.val \o <<" ">> \o description_text.val
       IN  \E kws \in extract_keywords(combined_text, 3) :
               keywords' = IF kws = <<>> THEN <<"issue">> ELSE kws
    /\ jql_query' = PyStr(JqlQuery(issue_key, keywords'))
    /\ pc' = "jira_search"
    /\ UNCHANGED <<issue_key, pr_id, failed, jira_client, found_issues, pr,
                   pr_tickets, patch_content, ret>>
    /\ UNCHANGED <<helperVars, renderVars, pluginVars>>

\* jira_client.issue(issue_key) raises
JiraIssueFails ==
    /\ pc = "jira_issue"
    /\ failed' = failed \cup {"jira_client.issue"}
    /\ ret' = Returned(<<>>)
    /\ pc' = "done"
    /\ UNCHANGED <<issue_key, pr_id, jira_client, current_issue, keywords, jql_query,
                   found_issues, pr, pr_tickets, patch_content>>
    /\ UNCHANGED <<helperVars, renderVars, pluginVars>>

\* jira_client.search_issues(jql_query, maxResults=5) returns: the queried
\* issue is left out and a JiraIssue is made of each of the others
JiraSearchOk ==
    /\ pc = "jira_search"
    /\ found_issues' \in SearchResults
    /\ ret' = BuildJiraIssues(RelatedIssues(found_issues', issue_key), <<>>)
    /\ pc' = "done"
    /\ UNCHANGED <<issue_key, pr_id, failed, jira_client, current_issue, keywords,
                   jql_query, pr, pr_tickets, patch_content>>
    /\ UNCHANGED <<helperVars, renderVars, pluginVars>>

\* jira_client.search_issues(...) raises
JiraSearchFails ==
    /\ pc = "jira_search"
    /\ failed' = failed \cup {"jira_client.search_issues"}
    /\ ret' = OnJqlError
    /\ pc' = "done"
    /\ UNCHANGED <<issue_key, pr_id, jira_client, current_issue, keywords, jql_query,
                   found_issues, pr, pr_tickets, patch_content>>
    /\ UNCHANGED <<helperVars, renderVars, pluginVars>>

\* Github(...), gh.get_repo(...) and repo.get_pull(pr_id) return (pr stands for
\* the pull request pr_id with its title): the ticket ids are taken from the title
GithubPrOk ==
    /\ pc = "github_pr"
    /\ pr' = [tag |-> "pr", val |-> PrTitle(pr_id)]
    /\ pr_tickets' \in extract_ticket_ids(PrTitle(pr_id))
    /\ pc' = "github_patch"
    /\ UNCHANGED <<issue_key, pr_id, failed, jira_client, current_issue, keywords,
                   jql_query, found_issues, patch_content, ret>>
    /\ UNCHANGED <<helperVars, renderVars, pluginVars>>

\* one of Github(...), gh.get_repo(...), repo.get_pull(pr_id) raises
GithubPrFails ==
    /\ pc = "github_pr"
    /\ failed' = failed \cup {"repo.get_pull"}
    /\ ret' = Returned(<<>>)
    /\ pc' = "done"
    /\ UNCHANGED <<issue_key, pr_id, jira_client, current_issue, keywords, jql_query,
                   found_issues, pr, pr_tickets, patch_content>>
    /\ UNCHANGED <<helperVars, renderVars, pluginVars>>

\* GithubPR(id=str(pr.number), title=pr_title, patch_content=..., jira_tickets=...)
\* and the return
BuildGithubPr(patch) ==
    NewIssue("GithubPR", [id |-> pr_id, title |-> pr.val, patch_content |-> patch,
                          jira_tickets |-> pr_tickets])

\* pr.patch returns
GithubPatchOk ==
    /\ pc = "github_patch"
    /\ patch_content' = PyStr(PrPatch(pr_id))
    /\ ret' = BuildGithubPr(patch_content'.val)
    /\ pc' = "done"
    /\ UNCHANGED <<issue_key, pr_id, failed, jira_client, current_issue, keywords,
                   jql_query, found_issues, pr, pr_tickets>>
    /\ UNCHANGED <<helperVars, renderVars, pluginVars>>

\* pr.patch raises: except Exception: patch_content = ''
GithubPatchFails ==
    /\ pc = "github_patch"
    /\ failed' = failed \cup {"pr.patch"}
    /\ patch_content' = PyStr(<<>>)
    /\ ret' = BuildGithubPr(patch_content'.val)
    /\ pc' = "done"
    /\ UNCHANGED <<issue_key, pr_id, jira_client, current_issue, keywords,
                   jql_query, found_issues, pr, pr_tickets>>
    /\ UNCHANGED <<helperVars, renderVars, pluginVars>>

NextFetch ==
    \/ JiraClientOk \/ JiraClientFails
    \/ JiraIssueOk \/ JiraIssueFails
    \/ JiraSearchOk \/ JiraSearchFails
    \/ GithubPrOk \/ GithubPrFails
    \/ GithubPatchOk \/ GithubPatchFails

SpecFetch == InitFetch /\ [][NextFetch]_vars

C10_RelatedJiraIssues ==
    (pc = "done" /\ issue_key # <<>> /\ failed = {}) =>
        LET others == SelectSeq(found_issues, LAMBDA k : k # issue_key)
        IN  /\ ret.tag = "return"
            /\ Len(ret.issues) <= 5
            /\ Len(ret.issues) = Len(others)
            /\ \A n \in 1..Len(ret.issues) :
                   /\ ret.issues[n].cls = "JiraIssue"
                   /\ ret.issues[n].id =
                          DigitsAfter(others[n], MinOf(TicketHyphens(others[n])))
            /\ keywords # <<>>
            /\ Len(keywords) <= 3

=============================================================================
